---- MODULE Spec2Model ----
(***************************************************************************)
(* A model of the timetabling engine (src/src/timetabler.rs) and of the    *)
(* input collector that calls it (src/src/app.rs).                         *)
(*                                                                         *)
(* Vectors that the source indexes from 0 (slot arrays) are functions over *)
(* 0..n-1; vectors that only grow by push (group lists, member lists, the  *)
(* student list, the candidate list) are sequences, so the element the     *)
(* source calls v[i] is v[i+1] here.                                       *)
(***************************************************************************)
EXTENDS Integers, Sequences, FiniteSets, TLC

VARIABLES
    \* ---- engine: the TimetableInfo handed to solve_timetable
    max_groups,             \* timetable_info.max_groups
    daily_lesson_capacity,  \* timetable_info.daily_lesson_capacity
    roster,                 \* timetable_info.students read so far: StudentInfo records
    \* ---- engine: locals of solve_timetable / handle_subjects
    total_slots,
    students,               \* Vec<Student>: the slot arrays of the students folded in
    groups_by_subject,      \* HashMap<&str, Vec<Group>>: DOMAIN = keys present
    personal_slots,         \* the current student's slot array
    subject_pos,            \* number of subjects of the current student already handled
    candidates,             \* the rebalancer's candidate list
    sort_stack,             \* pending calls (start, end) of sort_by_ascending_attendance
    next_free_slot,         \* the probe slot
    iter_pos,               \* elements personal_slots_iter has consumed
    probed,                 \* probe slots examined during the current rebalancing
    chosen,                 \* the candidate the probe loop chose
    pc,                     \* position in solve_timetable
    result,                 \* "none" while running, then Solved / Unsolved / Panic
    panic,                  \* the place that aborted, when result = "Panic"
    subjects,               \* Solved.subjects: per slot, how often each subject is listed
    slots_by_student_id,    \* Solved.slots_by_student_id
    \* ---- bookkeeping of the model (not program state)
    domain,                 \* the input family the run draws its roster from
    \* ---- input collector (TimetablerApp)
    state,                  \* AppState
    max_groups_txt,
    daily_lesson_capacity_txt,
    ui_max_groups,          \* TimetablerApp.max_groups : Option<u8>
    ui_daily_lesson_capacity,
    subjects_by_student_id,
    new_student_id_txt,
    new_student_subjects_txt,
    selected_student_id,
    engine_calls            \* number of times Submit has invoked solve_timetable

engine_vars == <<max_groups, daily_lesson_capacity, roster, total_slots, students,
                 groups_by_subject, personal_slots, subject_pos, candidates,
                 sort_stack, next_free_slot, iter_pos, probed, chosen, pc, result,
                 panic, subjects, slots_by_student_id, domain>>

ui_vars == <<state, max_groups_txt, daily_lesson_capacity_txt, ui_max_groups,
             ui_daily_lesson_capacity, subjects_by_student_id, new_student_id_txt,
             new_student_subjects_txt, selected_student_id, engine_calls>>

vars == <<engine_vars, ui_vars>>

----------------------------------------------------------------------------
(* Values *)

\* Option::None of a slot entry; Some((subject, group_idx)) is <<subject, group_idx>>.
None == <<>>

Some(subject, group_idx) == <<subject, group_idx>>

\* The subject names rosters are written with, in the order they are introduced.
SubjectNames == <<"A", "B", "C", "D", "E">>

Subjects == {SubjectNames[i] : i \in 1..Len(SubjectNames)}

SubjectNo(s) == CHOOSE i \in 1..Len(SubjectNames) : SubjectNames[i] = s

\* u8 arithmetic
U8 == 256

\* There are 5 days in the timetable week.
DaysPerWeek == 5

Max(a, b) == IF a > b THEN a ELSE b

----------------------------------------------------------------------------
(* Pure helpers of the engine *)

Range(seq) == {seq[i] : i \in 1..Len(seq)}

\* The indices 0..n-1 of a slot array.
SlotIdxs(slots) == DOMAIN slots

\* vec![None; total_slots.into()]
EmptySlots(n) == [k \in 0..(n - 1) |-> None]

\* groups_by_subject.get(subject).unwrap_or(&Vec::new())
GroupsOf(gbs, subject) == IF subject \in DOMAIN gbs THEN gbs[subject] ELSE <<>>

\* groups_by_subject.entry(subject).or_insert(Vec::new())
WithKey(gbs, subject) ==
    IF subject \in DOMAIN gbs THEN gbs
    ELSE [s \in (DOMAIN gbs) \cup {subject} |-> IF s = subject THEN <<>> ELSE gbs[s]]

\* groups_by_subject[candidate.0].get(candidate.1): does the group exist
GroupExists(gbs, candidate) ==
    /\ candidate[1] \in DOMAIN gbs
    /\ candidate[2] < Len(gbs[candidate[1]])

GroupAt(gbs, candidate) == gbs[candidate[1]][candidate[2] + 1]

\* attendance: the member count of the candidate's group, 0 when the index
\* does not exist. Indexing the map with a missing key aborts; callers of this
\* operator check HasKey first.
attendance(candidate, gbs) ==
    LET gs == gbs[candidate[1]]
    IN  IF candidate[2] < Len(gs) THEN Len(gs[candidate[2] + 1].student_idxs) ELSE 0

HasKey(gbs, candidate) == candidate[1] \in DOMAIN gbs

\* candidates.swap(i, j), 0-based
Swap(cs, i, j) ==
    [k \in 1..Len(cs) |-> IF k = i + 1 THEN cs[j + 1]
                          ELSE IF k = j + 1 THEN cs[i + 1] ELSE cs[k]]

\* while low_mark <= high_mark && attendance(candidates[low_mark]) <= pivot
RECURSIVE LowScan(_, _, _, _, _)
LowScan(cs, gbs, low_mark, high_mark, pivot) ==
    IF low_mark <= high_mark /\ attendance(cs[low_mark + 1], gbs) <= pivot
    THEN LowScan(cs, gbs, low_mark + 1, high_mark, pivot)
    ELSE low_mark

\* while low_mark <= high_mark && attendance(candidates[high_mark]) >= pivot
RECURSIVE HighScan(_, _, _, _, _)
HighScan(cs, gbs, low_mark, high_mark, pivot) ==
    IF low_mark <= high_mark /\ attendance(cs[high_mark + 1], gbs) >= pivot
    THEN HighScan(cs, gbs, low_mark, high_mark - 1, pivot)
    ELSE high_mark

\* The loop of sort_by_ascending_attendance: the list after the swaps, and the
\* final high_mark.
RECURSIVE PartitionLoop(_, _, _, _, _)
PartitionLoop(cs, gbs, low_mark, high_mark, pivot) ==
    LET lo == LowScan(cs, gbs, low_mark, high_mark, pivot)
        hi == HighScan(cs, gbs, lo, high_mark, pivot)
    IN  IF lo < hi
        THEN PartitionLoop(Swap(cs, lo, hi), gbs, lo, hi, pivot)
        ELSE [cs |-> cs, high_mark |-> hi]

\* A partition that leaves the pivot at the start of its range.
Partition_NoPivotSwap(cs, gbs, start, end) ==
    LET pivot == attendance(cs[start + 1], gbs)
        p == PartitionLoop(cs, gbs, start + 1, end, pivot)
    IN  [cs |-> p.cs, high_mark |-> p.high_mark]

\* One call of sort_by_ascending_attendance with start < end, up to its two
\* recursive calls: the list after the pivot swap, and the pivot's place.
Partition(cs, gbs, start, end) ==
    LET pivot == attendance(cs[start + 1], gbs)
        p == PartitionLoop(cs, gbs, start + 1, end, pivot)
    IN  [cs |-> Swap(p.cs, start, p.high_mark), high_mark |-> p.high_mark]

\* A recursion that keeps the pivot in the lower range.
SortCalls_KeepPivot(start, high_mark, end) ==
    << [start |-> start, end |-> high_mark],
       [start |-> high_mark + 1, end |-> end] >>

\* The recursive calls a call (start, end) makes, the first on top.
SortCalls(start, high_mark, end) ==
    << [start |-> start, end |-> high_mark - 1],
       [start |-> high_mark + 1, end |-> end] >>

\* A capacity test that is one group late.
AtCapacity_OneLate(gbs, subject, limit) == Len(GroupsOf(gbs, subject)) = limit + 1

\* groups_by_subject.get(subject).unwrap_or(&Vec::new()).len() == max_groups.into()
AtCapacity(gbs, subject, limit) == Len(GroupsOf(gbs, subject)) = limit

\* A last-slot test that is one slot late.
IsLastSlot_OneLate(probe, total) == probe = total

\* next_free_slot == (total_slots - 1).into()
IsLastSlot(probe, total) == probe = total - 1

\* A scan that keeps the last group of the subject whose slot is free.
LazyGroupIdx_Last(gbs, ps, subject) ==
    LET gs == GroupsOf(gbs, subject)
        free == {i \in 1..Len(gs) : ps[gs[i].slot] = None}
    IN  IF free = {} THEN -1
        ELSE (CHOOSE i \in free : \A j \in free : i >= j) - 1

\* try_assign_group_lazily: the index of the first group of the subject whose
\* slot is free in personal_slots, or -1.
LazyGroupIdx(gbs, ps, subject) ==
    LET gs == GroupsOf(gbs, subject)
        free == {i \in 1..Len(gs) : ps[gs[i].slot] = None}
    IN  IF free = {} THEN -1
        ELSE (CHOOSE i \in free : \A j \in free : i <= j) - 1

\* try_assign_group_lazily: its return value and personal_slots afterwards.
try_assign_group_lazily(gbs, ps, subject) ==
    LET g == LazyGroupIdx(gbs, ps, subject)
    IN  IF g = -1 THEN [ok |-> FALSE, personal_slots |-> ps]
        ELSE [ok |-> TRUE,
              personal_slots |->
                  [ps EXCEPT ![GroupsOf(gbs, subject)[g + 1].slot] = Some(subject, g)]]

\* personal_slots.iter().position(|x| x.is_none()): -1 stands for Option::None.
FirstFreeSlot(ps) ==
    LET free == {k \in SlotIdxs(ps) : ps[k] = None}
    IN  IF free = {} THEN -1 ELSE CHOOSE k \in free : \A j \in free : k <= j

\* personal_slots.clone().into_iter().flatten().collect(): the occupied
\* entries in slot order.
RECURSIVE Flatten(_, _)
Flatten(ps, k) ==
    IF k \notin SlotIdxs(ps) THEN <<>>
    ELSE (IF ps[k] = None THEN <<>> ELSE <<ps[k]>>) \o Flatten(ps, k + 1)

\* for i in 0..groups_by_subject[subject].len() { candidates.push((subject, i)) }
OwnGroups(gbs, subject) == [i \in 1..Len(gbs[subject]) |-> Some(subject, i - 1)]

BuildCandidates(gbs, ps, subject) == Flatten(ps, 0) \o OwnGroups(gbs, subject)

\* The acceptability test of the probe loop: no member of the candidate's
\* group has an entry at the probe slot; a group that does not exist yet has no
\* members.
IsCandidateOk(gbs, studs, candidate, slot) ==
    IF GroupExists(gbs, candidate)
    THEN \A m \in Range(GroupAt(gbs, candidate).student_idxs) :
             studs[m + 1][slot] = None
    ELSE TRUE

\* A scan that keeps the last acceptable candidate.
FirstOk_LastOk(gbs, studs, cs, slot) ==
    LET ok == {i \in 1..Len(cs) : IsCandidateOk(gbs, studs, cs[i], slot)}
    IN  IF ok = {} THEN 0 ELSE CHOOSE i \in ok : \A j \in ok : i >= j

\* The first acceptable candidate in list order (0 when there is none).
FirstOk(gbs, studs, cs, slot) ==
    LET ok == {i \in 1..Len(cs) : IsCandidateOk(gbs, studs, cs[i], slot)}
    IN  IF ok = {} THEN 0 ELSE CHOOSE i \in ok : \A j \in ok : i <= j

\* personal_slots_iter.position(|(pos, x)| pos > next_free_slot && x.is_none())
\* on an iterator that has already consumed `consumed` elements: the element
\* found is at absolute position `at`, position() returns the number of
\* elements it stepped over in THIS call (`index`), and the iterator has then
\* consumed everything up to and including `at`. found = FALSE is Option::None
\* (the iterator is exhausted).
IterPosition(ps, consumed, probe) ==
    LET hits == {k \in SlotIdxs(ps) : k >= consumed /\ k > probe /\ ps[k] = None}
    IN  IF hits = {} THEN [found |-> FALSE, index |-> 0, consumed |-> Cardinality(SlotIdxs(ps))]
        ELSE LET at == CHOOSE k \in hits : \A j \in hits : k <= j
             IN  [found |-> TRUE, index |-> at - consumed, consumed |-> at + 1]

\* personal_slots.iter().position(|x| x.is_some() && x.unwrap().0 == chosen_subject)
PositionOfSubject(ps, subject) ==
    LET held == {k \in SlotIdxs(ps) : ps[k] # None /\ ps[k][1] = subject}
    IN  IF held = {} THEN -1 ELSE CHOOSE k \in held : \A j \in held : k <= j

\* Lines 190-196: every member of the relocated group leaves the group's old
\* slot and takes the probe slot (the two writes in the source's order).
MigrateMembers(studs, group, candidate, probe) ==
    [i \in 1..Len(studs) |->
        IF (i - 1) \in Range(group.student_idxs)
        THEN [[studs[i] EXCEPT ![group.slot] = None] EXCEPT ![probe] = candidate]
        ELSE studs[i]]

\* A relocation that moves every group of the candidate's subject.
RelocateGroup_WholeSubject(gbs, candidate, probe) ==
    [gbs EXCEPT ![candidate[1]] =
        [g \in 1..Len(gbs[candidate[1]]) |-> [gbs[candidate[1]][g] EXCEPT !.slot = probe]]]

\* Lines 198-199: chosen_group.slot = next_free_slot
RelocateGroup(gbs, candidate, probe) ==
    [gbs EXCEPT ![candidate[1]][candidate[2] + 1].slot = probe]

\* A placement that copies the entry at the chosen group's slot to the probe
\* slot and leaves the original where it is.
PlaceAfterMove_CopyOnly(ps, subject, candidate, chosen_group_slot, probe) ==
    IF candidate[1] = subject
    THEN [ps EXCEPT ![probe] = Some(subject, candidate[2])]
    ELSE [ps EXCEPT ![probe] = ps[chosen_group_slot]]

\* Lines 207-213: the current student's array after the chosen candidate moved.
PlaceAfterMove(ps, subject, candidate, chosen_group_slot, probe) ==
    IF candidate[1] = subject
    THEN [ps EXCEPT ![probe] = Some(subject, candidate[2])]
    ELSE [[ps EXCEPT ![probe] = ps[chosen_group_slot]]
              EXCEPT ![chosen_group_slot] = Some(subject, candidate[2])]

\* A fold that registers the entry of the first occupied slot only.
make_global_FirstEntryOnly(gbs, ps, student_idx, from) ==
    LET occupied == {j \in SlotIdxs(ps) : j >= from /\ ps[j] # None}
    IN  IF occupied = {} THEN gbs
        ELSE LET k == CHOOSE j \in occupied : \A i \in occupied : j <= i
                 subject == ps[k][1]
                 group_idx == ps[k][2]
                 g1 == WithKey(gbs, subject)
             IN  IF group_idx < Len(g1[subject])
                 THEN [g1 EXCEPT ![subject][group_idx + 1].student_idxs =
                                     Append(@, student_idx)]
                 ELSE [g1 EXCEPT ![subject] =
                           Append(@, [slot |-> k, student_idxs |-> <<student_idx>>])]

\* make_global: fold the entries of personal_slots from slot `from` on into
\* the registry, in slot order (the loop body does nothing at an empty slot, so
\* the fold steps from one occupied slot to the next).
RECURSIVE make_global(_, _, _, _)
make_global(gbs, ps, student_idx, from) ==
    LET occupied == {j \in SlotIdxs(ps) : j >= from /\ ps[j] # None}
    IN  IF occupied = {} THEN gbs
        ELSE LET k == CHOOSE j \in occupied : \A i \in occupied : j <= i
                 subject == ps[k][1]
                 group_idx == ps[k][2]
                 g1 == WithKey(gbs, subject)
                 groups == g1[subject]
                 g2 == IF group_idx < Len(groups)
                       THEN [g1 EXCEPT ![subject][group_idx + 1].student_idxs =
                                           Append(@, student_idx)]
                       ELSE [g1 EXCEPT ![subject] =
                                 Append(@, [slot |-> k, student_idxs |-> <<student_idx>>])]
             IN  make_global(g2, ps, student_idx, k + 1)

\* Lines 305-308: slots_by_student_id.insert(student.id, student.slots) for
\* every student in order; a later insert under the same id replaces an
\* earlier one. Student i carries the id of roster entry i.
InsertAll(r, studs) ==
    [id \in {r[i].id : i \in 1..Len(studs)} |->
        LET last == CHOOSE i \in 1..Len(studs) :
                        /\ r[i].id = id
                        /\ \A j \in 1..Len(studs) : r[j].id = id => j <= i
        IN  studs[last]]

\* Lines 296-303: per slot, how many groups of each subject sit there (the
\* order inside a slot's list is the map's iteration order, so the list is
\* kept as a count per subject).
InvertGroups(gbs, n) ==
    [k \in 0..(n - 1) |->
        [s \in Subjects |->
            Cardinality({i \in 1..Len(GroupsOf(gbs, s)) : GroupsOf(gbs, s)[i].slot = k})]]

----------------------------------------------------------------------------
(* The input families of the engine's runs *)

\* All subject lists of length n.
RECURSIVE ListsOfLen(_)
ListsOfLen(n) ==
    IF n = 0 THEN {<<>>}
    ELSE {Append(l, s) : l \in ListsOfLen(n - 1), s \in Subjects}

\* Rosters are drawn from subject lists without repetition (the engine's
\* precondition; the collector deduplicates them).
DistinctLists(n) == {l \in ListsOfLen(n) : Cardinality(Range(l)) = Len(l)}

\* The collector never stores a student without subjects (app.rs, Add), so
\* the lists are non-empty.
AllLists == UNION {DistinctLists(n) : n \in 1..Len(SubjectNames)}

\* The engine compares subjects for equality only, so a roster and its image
\* under a renaming of the subjects take the same run. Rosters are therefore
\* drawn up to renaming: the subjects are introduced in the order of
\* SubjectNames (the first new subject is "A", the next new one "B", ...).
RECURSIVE IntroducedInOrder(_, _)
IntroducedInOrder(l, n) ==
    IF l = <<>> THEN TRUE
    ELSE /\ SubjectNo(Head(l)) <= n + 1
         /\ IntroducedInOrder(Tail(l), Max(n, SubjectNo(Head(l))))

Introduced(r) == Cardinality(UNION {Range(r[i].subjects) : i \in 1..Len(r)})

\* The number of (student, subject) requests of a roster.
RECURSIVE Requests(_)
Requests(r) == IF r = <<>> THEN 0 ELSE Len(Head(r).subjects) + Requests(Tail(r))

\* The subject lists the next student of the roster may have in a family.
NextLists(d, r) ==
    {l \in AllLists :
        /\ Len(l) <= d.max_list
        /\ Requests(r) + Len(l) <= d.max_requests
        /\ \A i \in 1..Len(l) : SubjectNo(l[i]) <= d.num_subjects
        /\ IntroducedInOrder(l, Introduced(r))}

----------------------------------------------------------------------------
(* solve_timetable *)

Running == result = "none"

CurrentSubjects == roster[Len(roster)].subjects

CurrentSubject == CurrentSubjects[subject_pos + 1]

\* The index of the student being placed.
student_idx == Len(roster) - 1

Abort(where) ==
    /\ result' = "Panic"
    /\ panic' = where
    /\ pc' = "done"

\* let total_slots = timetable_info.daily_lesson_capacity * 5: a u8 product.
\* A build with overflow checks aborts on overflow, one without wraps.
Enter ==
    /\ pc = "enter"
    /\ IF daily_lesson_capacity * DaysPerWeek < U8
       THEN /\ total_slots' = daily_lesson_capacity * DaysPerWeek
            /\ pc' = "next_student"
            /\ UNCHANGED <<result, panic>>
       ELSE \E checked \in BOOLEAN :
                IF checked
                THEN Abort("total_slots_overflow") /\ UNCHANGED total_slots
                ELSE /\ total_slots' = (daily_lesson_capacity * DaysPerWeek) % U8
                     /\ pc' = "next_student"
                     /\ UNCHANGED <<result, panic>>
    /\ UNCHANGED <<max_groups, daily_lesson_capacity, roster, students,
                   groups_by_subject, personal_slots, subject_pos, candidates,
                   sort_stack, next_free_slot, iter_pos, probed, chosen,
                   subjects, slots_by_student_id, domain, ui_vars>>

\* StudentInfo::new
StudentInfo(id, subject_list) == [id |-> id, subjects |-> subject_list]

\* The head of the loop over timetable_info.students, when there is a next
\* student: a fresh slot array, then the first subject (or straight to
\* make_global when the student has none).
StartStudent ==
    /\ pc = "next_student"
    /\ Len(roster) < domain.max_students
    /\ \E subject_list \in NextLists(domain, roster) :
           /\ roster' = Append(roster, StudentInfo(Len(roster), subject_list))
           /\ pc' = IF subject_list = <<>> THEN "fold" ELSE "subject"
    /\ personal_slots' = EmptySlots(total_slots)
    /\ subject_pos' = 0
    /\ UNCHANGED <<max_groups, daily_lesson_capacity, total_slots, students,
                   groups_by_subject, candidates, sort_stack, next_free_slot,
                   iter_pos, probed, chosen, result, panic, subjects,
                   slots_by_student_id, domain, ui_vars>>

\* Where handle_subjects goes after a subject has been placed.
AfterSubject == IF subject_pos + 1 = Len(CurrentSubjects) THEN "fold" ELSE "subject"

\* One iteration of `for &subject in subjects` up to the rebalancer: lazy
\* reuse, else the first free slot and either a new group or the candidate
\* list of the rebalancer.
HandleSubject ==
    /\ pc = "subject"
    /\ LET subject == CurrentSubject
           lazy == try_assign_group_lazily(groups_by_subject, personal_slots, subject)
           free == FirstFreeSlot(personal_slots)
       IN  IF lazy.ok
           THEN /\ personal_slots' = lazy.personal_slots
                /\ subject_pos' = subject_pos + 1
                /\ pc' = AfterSubject
                /\ UNCHANGED <<groups_by_subject, candidates, sort_stack,
                               next_free_slot, iter_pos, probed, result, panic>>
           ELSE IF free = -1
           THEN /\ Abort("first_free_slot")
                /\ UNCHANGED <<groups_by_subject, personal_slots, subject_pos,
                               candidates, sort_stack, next_free_slot, iter_pos,
                               probed>>
           ELSE IF AtCapacity(groups_by_subject, subject, max_groups)
           THEN IF subject \notin DOMAIN groups_by_subject
                THEN /\ Abort("missing_key")
                     /\ UNCHANGED <<groups_by_subject, personal_slots, subject_pos,
                                    candidates, sort_stack, next_free_slot,
                                    iter_pos, probed>>
                ELSE /\ candidates' =
                            BuildCandidates(groups_by_subject, personal_slots, subject)
                     /\ sort_stack' = << [start |-> 0, end |-> Len(candidates') - 1] >>
                     /\ next_free_slot' = free
                     /\ iter_pos' = 0
                     /\ probed' = <<>>
                     /\ pc' = "sort"
                     /\ UNCHANGED <<groups_by_subject, personal_slots, subject_pos,
                                    result, panic>>
           ELSE /\ personal_slots' =
                       [personal_slots EXCEPT ![free] =
                           Some(subject, Len(GroupsOf(groups_by_subject, subject)))]
                /\ groups_by_subject' = WithKey(groups_by_subject, subject)
                /\ subject_pos' = subject_pos + 1
                /\ pc' = AfterSubject
                /\ UNCHANGED <<candidates, sort_stack, next_free_slot, iter_pos,
                               probed, result, panic>>
    /\ UNCHANGED <<max_groups, daily_lesson_capacity, roster, total_slots, students,
                   chosen, subjects, slots_by_student_id, domain, ui_vars>>

\* One call of sort_by_ascending_attendance: the call on top of the stack
\* returns at once when start >= end, else partitions its range and makes its
\* two recursive calls. The probe loop starts when the outermost call returns.
SortStep ==
    /\ pc = "sort"
    /\ LET call == Head(sort_stack)
           rest == Tail(sort_stack)
       IN  IF call.start >= call.end
           THEN /\ sort_stack' = rest
                /\ pc' = IF rest = <<>> THEN "probe" ELSE "sort"
                /\ UNCHANGED <<candidates, result, panic>>
           ELSE IF \E i \in (call.start + 1)..(call.end + 1) :
                       ~HasKey(groups_by_subject, candidates[i])
           THEN /\ Abort("missing_key")
                /\ UNCHANGED <<candidates, sort_stack>>
           ELSE LET p == Partition(candidates, groups_by_subject, call.start, call.end)
                IN  /\ candidates' = p.cs
                    /\ sort_stack' = SortCalls(call.start, p.high_mark, call.end) \o rest
                    /\ pc' = "sort"
                    /\ UNCHANGED <<result, panic>>
    /\ UNCHANGED <<max_groups, daily_lesson_capacity, roster, total_slots, students,
                   groups_by_subject, personal_slots, subject_pos, next_free_slot,
                   iter_pos, probed, chosen, subjects, slots_by_student_id, domain,
                   ui_vars>>

\* The candidates the scan at the probe slot looks at before it stops: all of
\* them when none is acceptable, else those up to the first acceptable one.
Scanned(cs, first_ok) == IF first_ok = 0 THEN 1..Len(cs) ELSE 1..first_ok

\* One iteration of the probe loop ('outer): scan the candidates at the probe
\* slot; choose the first acceptable one, or give up at the last slot of the
\* week, or advance the probe slot.
ProbeStep ==
    /\ pc = "probe"
    /\ LET first_ok == FirstOk(groups_by_subject, students, candidates, next_free_slot)
           next == IterPosition(personal_slots, iter_pos, next_free_slot)
       IN  IF \E i \in Scanned(candidates, first_ok) :
                  ~HasKey(groups_by_subject, candidates[i])
           THEN /\ Abort("missing_key")
                /\ UNCHANGED <<next_free_slot, iter_pos, probed, chosen>>
           ELSE IF first_ok # 0
           THEN /\ chosen' = candidates[first_ok]
                /\ probed' = Append(probed, next_free_slot)
                /\ pc' = "move"
                /\ UNCHANGED <<next_free_slot, iter_pos, result, panic>>
           ELSE IF IsLastSlot(next_free_slot, total_slots)
           THEN /\ result' = "Unsolved"
                /\ probed' = Append(probed, next_free_slot)
                /\ pc' = "done"
                /\ UNCHANGED <<next_free_slot, iter_pos, chosen, panic>>
           ELSE IF ~next.found
           THEN /\ Abort("next_probe_slot")
                /\ probed' = Append(probed, next_free_slot)
                /\ UNCHANGED <<next_free_slot, iter_pos, chosen>>
           ELSE /\ next_free_slot' = next.index
                /\ iter_pos' = next.consumed
                /\ probed' = Append(probed, next_free_slot)
                /\ pc' = "probe"
                /\ UNCHANGED <<chosen, result, panic>>
    /\ UNCHANGED <<max_groups, daily_lesson_capacity, roster, total_slots, students,
                   groups_by_subject, personal_slots, subject_pos, candidates,
                   sort_stack, subjects, slots_by_student_id, domain, ui_vars>>

\* Lines 180-213: move the chosen candidate to the probe slot and place the
\* current subject.
MoveChosen ==
    /\ pc = "move"
    /\ LET subject == CurrentSubject
           exists == GroupExists(groups_by_subject, chosen)
           held == PositionOfSubject(personal_slots, chosen[1])
           chosen_group_slot ==
               IF exists THEN GroupAt(groups_by_subject, chosen).slot ELSE held
       IN  IF ~exists /\ held = -1
           THEN /\ Abort("position_of_chosen")
                /\ UNCHANGED <<students, groups_by_subject, personal_slots,
                               subject_pos>>
           ELSE /\ students' =
                       IF exists
                       THEN MigrateMembers(students, GroupAt(groups_by_subject, chosen),
                                           chosen, next_free_slot)
                       ELSE students
                /\ groups_by_subject' =
                       IF exists
                       THEN RelocateGroup(groups_by_subject, chosen, next_free_slot)
                       ELSE groups_by_subject
                /\ personal_slots' =
                       PlaceAfterMove(personal_slots, subject, chosen,
                                      chosen_group_slot, next_free_slot)
                /\ subject_pos' = subject_pos + 1
                /\ pc' = AfterSubject
                /\ UNCHANGED <<result, panic>>
    /\ UNCHANGED <<max_groups, daily_lesson_capacity, roster, total_slots,
                   candidates, sort_stack, next_free_slot, iter_pos, probed, chosen,
                   subjects, slots_by_student_id, domain, ui_vars>>

\* Lines 277-292: make_global, then the finished array is pushed to students.
FoldStudent ==
    /\ pc = "fold"
    /\ groups_by_subject' = make_global(groups_by_subject, personal_slots, student_idx, 0)
    /\ students' = Append(students, personal_slots)
    /\ pc' = "next_student"
    /\ UNCHANGED <<max_groups, daily_lesson_capacity, roster, total_slots,
                   personal_slots, subject_pos, candidates, sort_stack,
                   next_free_slot, iter_pos, probed, chosen, result, panic,
                   subjects, slots_by_student_id, domain, ui_vars>>

\* Lines 295-313, when the loop over the students has ended: invert the
\* registry and key the students' arrays by id.
Finish ==
    /\ pc = "next_student"
    /\ Len(roster) >= 1
    /\ subjects' = InvertGroups(groups_by_subject, total_slots)
    /\ slots_by_student_id' = InsertAll(roster, students)
    /\ result' = "Solved"
    /\ pc' = "done"
    /\ UNCHANGED <<max_groups, daily_lesson_capacity, roster, total_slots, students,
                   groups_by_subject, personal_slots, subject_pos, candidates,
                   sort_stack, next_free_slot, iter_pos, probed, chosen, panic,
                   domain, ui_vars>>

EngineNext ==
    \/ Enter
    \/ StartStudent
    \/ HandleSubject
    \/ SortStep
    \/ ProbeStep
    \/ MoveChosen
    \/ FoldStudent
    \/ Finish

----------------------------------------------------------------------------
(* Initial states *)

NoGroups == [s \in {} |-> <<>>]

\* The collector's fields while only the engine runs.
UIIdle ==
    /\ state = [tag |-> "GeneralConfig", is_creating |-> FALSE]
    /\ max_groups_txt = <<>>
    /\ daily_lesson_capacity_txt = <<>>
    /\ ui_max_groups = None
    /\ ui_daily_lesson_capacity = None
    /\ subjects_by_student_id = NoGroups
    /\ new_student_id_txt = <<>>
    /\ new_student_subjects_txt = <<>>
    /\ selected_student_id = <<>>
    /\ engine_calls = 0

\* The engine's locals at the entry of solve_timetable.
EngineEntry ==
    /\ roster = <<>>
    /\ total_slots = 0
    /\ students = <<>>
    /\ groups_by_subject = NoGroups
    /\ personal_slots = EmptySlots(0)
    /\ subject_pos = 0
    /\ candidates = <<>>
    /\ sort_stack = <<>>
    /\ next_free_slot = 0
    /\ iter_pos = 0
    /\ probed = <<>>
    /\ chosen = None
    /\ pc = "enter"
    /\ result = "none"
    /\ panic = "none"
    /\ subjects = EmptySlots(0)
    /\ slots_by_student_id = <<>>

\* A call of solve_timetable on a roster of family d.
EngineInit(d) ==
    /\ domain = d
    /\ max_groups \in d.group_limits
    /\ daily_lesson_capacity \in d.capacities
    /\ EngineEntry
    /\ UIIdle

\* The rosters of a run hold at most MaxRequests (student, subject) requests.
MaxRequests == 10

\* Many students over few subjects: up to five students over three subjects,
\* one group per subject.
NarrowFamily ==
    [num_subjects |-> 3, max_students |-> 5, max_list |-> 3,
     max_requests |-> MaxRequests, group_limits |-> {1}, capacities |-> {1}]

\* Several groups per subject: up to four students over three subjects, two
\* or three groups allowed per subject.
GroupsFamily ==
    [num_subjects |-> 3, max_students |-> 4, max_list |-> 3,
     max_requests |-> MaxRequests, group_limits |-> {2, 3}, capacities |-> {1}]

\* Few students with full weeks: up to three students over five subjects (a
\* student may fill all five slots of the week), one group per subject.
WideFamily ==
    [num_subjects |-> 5, max_students |-> 3, max_list |-> 5,
     max_requests |-> MaxRequests, group_limits |-> {1}, capacities |-> {1}]

\* Every student requests the one subject "A": up to three students, with
\* group limits and daily capacities from the whole range the collector
\* accepts (1..255), on both sides of the largest capacity whose slot count
\* fits eight bits.
UniformFamily ==
    [num_subjects |-> 1, max_students |-> 3, max_list |-> 1,
     max_requests |-> MaxRequests, group_limits |-> {1, 3, 255},
     capacities |-> {1, 2, 51, 52, 255}]

Families == {NarrowFamily, GroupsFamily, WideFamily, UniformFamily}

Init == \E d \in Families : EngineInit(d)

Next == EngineNext

Spec == Init /\ [][Next]_vars

----------------------------------------------------------------------------
(* The input collector: TimetablerApp::update, one user event per frame.   *)
(* A text is the sequence of its characters.                               *)

DigitChars == <<"0", "1", "2", "3", "4", "5", "6", "7", "8", "9">>

IsDigit(c) == \E i \in 1..Len(DigitChars) : DigitChars[i] = c

DigitValue(c) == (CHOOSE i \in 1..Len(DigitChars) : DigitChars[i] = c) - 1

RECURSIVE Decimal(_, _)
Decimal(digits, acc) ==
    IF digits = <<>> THEN acc
    ELSE Decimal(Tail(digits), acc * 10 + DigitValue(Head(digits)))

\* str::parse::<u8>: an optional "+", then one or more decimal digits whose
\* value fits eight bits; anything else is an error (-1 here).
ParseU8(txt) ==
    LET digits == IF txt # <<>> /\ Head(txt) = "+" THEN Tail(txt) ELSE txt
    IN  IF digits = <<>> \/ \E i \in 1..Len(digits) : ~IsDigit(digits[i]) THEN -1
        ELSE IF Decimal(digits, 0) >= U8 THEN -1
        ELSE Decimal(digits, 0)

\* str::split(','): the pieces between the commas (one more than the commas).
RECURSIVE SplitComma(_, _)
SplitComma(txt, piece) ==
    IF txt = <<>> THEN <<piece>>
    ELSE IF Head(txt) = "," THEN <<piece>> \o SplitComma(Tail(txt), <<>>)
    ELSE SplitComma(Tail(txt), Append(piece, Head(txt)))

\* Lines 205-213: the non-empty pieces, each kept once, in order of first
\* appearance.
RECURSIVE PushNew(_, _)
PushNew(pieces, subject_list) ==
    IF pieces = <<>> THEN subject_list
    ELSE IF Head(pieces) = <<>> \/ Head(pieces) \in Range(subject_list)
         THEN PushNew(Tail(pieces), subject_list)
         ELSE PushNew(Tail(pieces), Append(subject_list, Head(pieces)))

EnteredSubjects(txt) == PushNew(SplitComma(txt, <<>>), <<>>)

\* An acceptance test without the two comparisons with zero.
Accepted_AnyNumber(new_max_groups, new_daily_lesson_capacity) ==
    /\ new_max_groups # -1
    /\ new_daily_lesson_capacity # -1

\* Line 103: new_max_groups > 0 && new_daily_lesson_capacity > 0, for two
\* parse results.
Accepted(new_max_groups, new_daily_lesson_capacity) ==
    /\ new_max_groups # -1
    /\ new_daily_lesson_capacity # -1
    /\ new_max_groups > 0
    /\ new_daily_lesson_capacity > 0

\* AppState
GeneralConfig == [tag |-> "GeneralConfig", is_creating |-> FALSE]

StudentConfig(is_creating) == [tag |-> "StudentConfig", is_creating |-> is_creating]

Submitted == [tag |-> "Submitted", is_creating |-> FALSE]

\* HashMap::remove
RemoveKey(map, key) == [k \in (DOMAIN map) \ {key} |-> map[k]]

\* An insert that drops the new entry.
InsertKey_Dropped(map, key, value) == map

\* vacant.insert(subjects)
InsertKey(map, key, value) ==
    [k \in (DOMAIN map) \cup {key} |-> IF k = key THEN value ELSE map[k]]

\* What the user types into the two number fields.
NumberTexts ==
    { <<>>, <<"0">>, <<"1">>, <<"+", "2">>, <<"-", "1">>, <<"2", "5", "6">>,
      <<"1", "a">> }

\* What the user types into the id field of the "Create student" window.
IdTexts == { <<>>, <<"x">>, <<"y">> }

\* What the user types into its subjects field.
SubjectTexts ==
    { <<>>, <<",">>, <<"a">>, <<"a", ",", "b">>, <<"b", ",", ",", "a", ",", "b">>,
      <<"a", ",", "b", ",", "c", ",", "d", ",", "e", ",", "f">> }

\* The orders in which a map's entries can be iterated.
Orders(keys) ==
    {o \in [1..Cardinality(keys) -> keys] : \A i, j \in DOMAIN o : i # j => o[i] # o[j]}

UIInit ==
    /\ state = GeneralConfig
    /\ max_groups_txt = <<>>
    /\ daily_lesson_capacity_txt = <<>>
    /\ ui_max_groups = None
    /\ ui_daily_lesson_capacity = None
    /\ subjects_by_student_id = NoGroups
    /\ new_student_id_txt = <<>>
    /\ new_student_subjects_txt = <<>>
    /\ selected_student_id = <<>>
    /\ engine_calls = 0
    /\ domain = [num_subjects |-> 0, max_students |-> 0, max_list |-> 0,
                 max_requests |-> 0, group_limits |-> {}, capacities |-> {}]
    /\ max_groups = 0
    /\ daily_lesson_capacity = 0
    /\ EngineEntry

\* ui.text_edit_singleline(max_groups_txt)
EditMaxGroups ==
    /\ state.tag = "GeneralConfig"
    /\ \E txt \in NumberTexts : max_groups_txt' = txt
    /\ UNCHANGED <<state, daily_lesson_capacity_txt, ui_max_groups,
                   ui_daily_lesson_capacity, subjects_by_student_id,
                   new_student_id_txt, new_student_subjects_txt,
                   selected_student_id, engine_calls, engine_vars>>

\* ui.text_edit_singleline(daily_lesson_capacity_txt)
EditDailyLessonCapacity ==
    /\ state.tag = "GeneralConfig"
    /\ \E txt \in NumberTexts : daily_lesson_capacity_txt' = txt
    /\ UNCHANGED <<state, max_groups_txt, ui_max_groups, ui_daily_lesson_capacity,
                   subjects_by_student_id, new_student_id_txt,
                   new_student_subjects_txt, selected_student_id, engine_calls,
                   engine_vars>>

\* Lines 100-115: the "Next" button.
ClickNext ==
    /\ state.tag = "GeneralConfig"
    /\ LET new_max_groups == ParseU8(max_groups_txt)
           new_daily_lesson_capacity == ParseU8(daily_lesson_capacity_txt)
       IN  IF Accepted(new_max_groups, new_daily_lesson_capacity)
           THEN /\ ui_max_groups' = new_max_groups
                /\ ui_daily_lesson_capacity' = new_daily_lesson_capacity
                /\ state' = StudentConfig(FALSE)
           ELSE UNCHANGED <<ui_max_groups, ui_daily_lesson_capacity, state>>
    /\ UNCHANGED <<max_groups_txt, daily_lesson_capacity_txt, subjects_by_student_id,
                   new_student_id_txt, new_student_subjects_txt,
                   selected_student_id, engine_calls, engine_vars>>

\* Lines 126-136 and 286-298: the "Select student" combo box.
SelectStudent ==
    /\ state.tag \in {"StudentConfig", "Submitted"}
    /\ \E student_id \in DOMAIN subjects_by_student_id :
           selected_student_id' = student_id
    /\ UNCHANGED <<state, max_groups_txt, daily_lesson_capacity_txt, ui_max_groups,
                   ui_daily_lesson_capacity, subjects_by_student_id,
                   new_student_id_txt, new_student_subjects_txt, engine_calls,
                   engine_vars>>

\* Lines 138-142: the "Add student" button.
ClickAddStudent ==
    /\ state.tag = "StudentConfig"
    /\ IF ~state.is_creating
       THEN /\ state' = StudentConfig(TRUE)
            /\ new_student_id_txt' = <<>>
            /\ new_student_subjects_txt' = <<>>
       ELSE UNCHANGED <<state, new_student_id_txt, new_student_subjects_txt>>
    /\ UNCHANGED <<max_groups_txt, daily_lesson_capacity_txt, ui_max_groups,
                   ui_daily_lesson_capacity, subjects_by_student_id,
                   selected_student_id, engine_calls, engine_vars>>

\* Lines 150-157: the "Delete" button; the next selection is the first key in
\* the map's iteration order.
ClickDelete ==
    /\ state.tag = "StudentConfig"
    /\ selected_student_id # <<>>
    /\ subjects_by_student_id' = RemoveKey(subjects_by_student_id, selected_student_id)
    /\ IF DOMAIN subjects_by_student_id' = {}
       THEN selected_student_id' = <<>>
       ELSE \E id \in DOMAIN subjects_by_student_id' : selected_student_id' = id
    /\ UNCHANGED <<state, max_groups_txt, daily_lesson_capacity_txt, ui_max_groups,
                   ui_daily_lesson_capacity, new_student_id_txt,
                   new_student_subjects_txt, engine_calls, engine_vars>>

\* Lines 160-178: the "Submit" button builds the TimetableInfo (the students
\* in the map's iteration order) and calls solve_timetable with it.
ClickSubmit ==
    /\ state.tag = "StudentConfig"
    /\ selected_student_id # <<>>
    /\ \E order \in Orders(DOMAIN subjects_by_student_id) :
           roster' = [i \in DOMAIN order |->
                         StudentInfo(order[i], subjects_by_student_id[order[i]])]
    /\ max_groups' = ui_max_groups
    /\ daily_lesson_capacity' = ui_daily_lesson_capacity
    /\ engine_calls' = engine_calls + 1
    /\ state' = Submitted
    /\ UNCHANGED <<max_groups_txt, daily_lesson_capacity_txt, ui_max_groups,
                   ui_daily_lesson_capacity, subjects_by_student_id,
                   new_student_id_txt, new_student_subjects_txt,
                   selected_student_id, total_slots, students, groups_by_subject,
                   personal_slots, subject_pos, candidates, sort_stack,
                   next_free_slot, iter_pos, probed, chosen, pc, result, panic,
                   subjects, slots_by_student_id, domain>>

\* ui.text_edit_singleline(new_student_id_txt) in the "Create student" window
EditNewStudentId ==
    /\ state.tag = "StudentConfig"
    /\ state.is_creating
    /\ \E txt \in IdTexts : new_student_id_txt' = txt
    /\ UNCHANGED <<state, max_groups_txt, daily_lesson_capacity_txt, ui_max_groups,
                   ui_daily_lesson_capacity, subjects_by_student_id,
                   new_student_subjects_txt, selected_student_id, engine_calls,
                   engine_vars>>

\* ui.text_edit_singleline(new_student_subjects_txt)
EditNewStudentSubjects ==
    /\ state.tag = "StudentConfig"
    /\ state.is_creating
    /\ \E txt \in SubjectTexts : new_student_subjects_txt' = txt
    /\ UNCHANGED <<state, max_groups_txt, daily_lesson_capacity_txt, ui_max_groups,
                   ui_daily_lesson_capacity, subjects_by_student_id,
                   new_student_id_txt, selected_student_id, engine_calls,
                   engine_vars>>

\* Lines 197-222: the "Add" button of the window.
ClickAdd ==
    /\ state.tag = "StudentConfig"
    /\ state.is_creating
    /\ LET subject_list == EnteredSubjects(new_student_subjects_txt)
       IN  IF /\ new_student_id_txt \notin DOMAIN subjects_by_student_id
              /\ new_student_id_txt # <<>>
              /\ subject_list # <<>>
           THEN /\ subjects_by_student_id' =
                       InsertKey(subjects_by_student_id, new_student_id_txt, subject_list)
                /\ selected_student_id' = new_student_id_txt
                /\ state' = StudentConfig(FALSE)
           ELSE UNCHANGED <<subjects_by_student_id, selected_student_id, state>>
    /\ UNCHANGED <<max_groups_txt, daily_lesson_capacity_txt, ui_max_groups,
                   ui_daily_lesson_capacity, new_student_id_txt,
                   new_student_subjects_txt, engine_calls, engine_vars>>

\* Lines 223-228: the "Cancel" button of the window.
ClickCancel ==
    /\ state.tag = "StudentConfig"
    /\ state.is_creating
    /\ state' = StudentConfig(FALSE)
    /\ UNCHANGED <<max_groups_txt, daily_lesson_capacity_txt, ui_max_groups,
                   ui_daily_lesson_capacity, subjects_by_student_id,
                   new_student_id_txt, new_student_subjects_txt,
                   selected_student_id, engine_calls, engine_vars>>

UINext ==
    \/ EditMaxGroups
    \/ EditDailyLessonCapacity
    \/ ClickNext
    \/ SelectStudent
    \/ ClickAddStudent
    \/ ClickDelete
    \/ ClickSubmit
    \/ EditNewStudentId
    \/ EditNewStudentSubjects
    \/ ClickAdd
    \/ ClickCancel

UISpec == UIInit /\ [][UINext]_vars

----------------------------------------------------------------------------
(* Properties of the engine *)

Solved == result = "Solved"

Unsolved == result = "Unsolved"

\* The occupied slots of a slot array.
Occupied(slots) == {k \in SlotIdxs(slots) : slots[k] # None}

\* The slots at which a slot array holds the entry (subject, group_idx).
SlotsHolding(slots, subject, group_idx) ==
    {k \in SlotIdxs(slots) : slots[k] = Some(subject, group_idx)}

\* The group indices a subject has in the registry (0-based).
GroupIdxs(gbs, subject) == 0..(Len(GroupsOf(gbs, subject)) - 1)

\* The group indices of a subject that some array of a result mentions.
HeldIdxs(by_id, subject) ==
    UNION {{by_id[id][k][2] : k \in {j \in SlotIdxs(by_id[id]) :
                                  by_id[id][j] # None /\ by_id[id][j][1] = subject}} :
           id \in DOMAIN by_id}

\* C1: on every input that meets the preconditions, solve_timetable returns
\* Solved or Unsolved; no step aborts on a failed unwrap or a bad index.
C1_NoAbort == result # "Panic"

\* C2: in every Solved result, each student's array has as many occupied
\* entries as the student requested (distinct) subjects.
C2_AllSubjectsPlaced ==
    Solved =>
        \A i \in 1..Len(roster) :
            Cardinality(Occupied(slots_by_student_id[roster[i].id])) =
                Cardinality(Range(roster[i].subjects))

\* C3: after every student is folded into the registry, and in every Solved
\* result, each subject has at most max_groups groups, and so is listed at most
\* max_groups times across the slots of the result.
RECURSIVE Listed(_, _, _)
Listed(table, subject, from) ==
    LET listing == {k \in DOMAIN table : k >= from /\ table[k][subject] > 0}
    IN  IF listing = {} THEN 0
        ELSE LET k == CHOOSE j \in listing : \A i \in listing : j <= i
             IN  table[k][subject] + Listed(table, subject, k + 1)

C3_AtMostMaxGroups ==
    /\ pc \in {"next_student", "done"} =>
           \A s \in Subjects : Len(GroupsOf(groups_by_subject, s)) <= max_groups
    /\ Solved => \A s \in Subjects : Listed(subjects, s, 0) <= max_groups

C3_Witness ==
    /\ Solved
    /\ max_groups = 2
    /\ \E s \in Subjects :
           /\ Len(GroupsOf(groups_by_subject, s)) = max_groups
           /\ Listed(subjects, s, 0) = max_groups
    /\ \E i \in 1..Len(students) : Cardinality(Occupied(students[i])) >= 3

\* C4: in every state of the registry, and in every Solved result, no two
\* groups of the same subject have the same slot: no slot of the result lists a
\* subject twice.
C4_NoSharedSlot ==
    /\ \A s \in DOMAIN groups_by_subject :
           \A i, j \in 1..Len(groups_by_subject[s]) :
               i # j => groups_by_subject[s][i].slot # groups_by_subject[s][j].slot
    /\ Solved => \A k \in DOMAIN subjects : \A s \in Subjects : subjects[k][s] <= 1

\* C5: in every Solved result, a student is a member of group g of subject s
\* exactly if the student's array holds (s, g) at exactly one slot.
C5_MemberIffOneSlot ==
    Solved =>
        \A i \in 1..Len(roster) : \A s \in Subjects :
            \A g \in GroupIdxs(groups_by_subject, s) \cup HeldIdxs(slots_by_student_id, s) :
                ( /\ g \in GroupIdxs(groups_by_subject, s)
                  /\ (i - 1) \in Range(groups_by_subject[s][g + 1].student_idxs) )
                <=>
                Cardinality(SlotsHolding(slots_by_student_id[roster[i].id], s, g)) = 1

\* C6: in every Solved result, the table derived from the students' arrays
\* (per slot, one listing of a subject for each distinct (subject, group index)
\* entry that some student holds there) is the result's subjects table, slot by
\* slot, as multisets.
DerivedTable(by_id, n) ==
    [k \in 0..(n - 1) |->
        [s \in Subjects |->
            Cardinality({g \in HeldIdxs(by_id, s) :
                            \E id \in DOMAIN by_id : by_id[id][k] = Some(s, g)})]]

C6_TableRederived ==
    Solved => DerivedTable(slots_by_student_id, total_slots) = subjects

\* C7: solve_timetable returns Unsolved exactly when the probe slot is the
\* last slot of the week and no candidate is acceptable there; it then returns
\* at once, and the failing placement changes no group and no array.
NoneAcceptable ==
    FirstOk(groups_by_subject, students, candidates, next_free_slot) = 0

C7_UnsolvedStep ==
    /\ (pc = "probe" /\ next_free_slot = total_slots - 1 /\ NoneAcceptable)
           => result' = "Unsolved"
    /\ result' = "Unsolved" =>
           /\ pc = "probe" /\ next_free_slot = total_slots - 1 /\ NoneAcceptable
           /\ pc' = "done"
    /\ (pc' \in {"sort", "probe"} \/ result' = "Unsolved") =>
           UNCHANGED <<groups_by_subject, students, personal_slots, roster>>
    /\ result # "Unsolved"

C7_UnsolvedExactlyAtLastSlot == [][C7_UnsolvedStep]_vars

C7_Witness == Unsolved /\ Len(probed) >= 2

\* C8: the probe loop of one placement examines at most total_slots probe
\* slots, and every recursive call of sort_by_ascending_attendance works on a
\* strictly shorter index range than its caller.
C8_SortShrinks ==
    (pc = "sort" /\ Len(sort_stack') > Len(sort_stack)) =>
        \A i \in 1..2 :
            sort_stack'[i].end - sort_stack'[i].start <
                Head(sort_stack).end - Head(sort_stack).start

C8_Terminates ==
    /\ [](Len(probed) <= total_slots)
    /\ [][C8_SortShrinks]_vars
    /\ [][pc = "sort" => Len(sort_stack') <= Len(sort_stack) + 1]_vars

C8_Witness ==
    /\ pc = "probe"
    /\ Len(probed) >= 2
    /\ Len(candidates) >= 3

----------------------------------------------------------------------------
(* Properties of the input collector *)

EngineCalled == engine_calls > 0

\* C9: the collector never calls the engine with a student who has more
\* distinct subjects than daily_lesson_capacity * 5.
C9_NoOversubscribedStudent ==
    EngineCalled =>
        \A i \in 1..Len(roster) :
            Cardinality(Range(roster[i].subjects)) <= daily_lesson_capacity * DaysPerWeek

\* C10: whenever the collector calls the engine, max_groups >= 1,
\* daily_lesson_capacity >= 1, the student ids are non-empty and pairwise
\* different, and every subject list is non-empty, without empty strings and
\* without repetitions.
C10_CallMeetsContract ==
    EngineCalled =>
        /\ max_groups \in 1..(U8 - 1)
        /\ daily_lesson_capacity \in 1..(U8 - 1)
        /\ \A i \in 1..Len(roster) : roster[i].id # <<>>
        /\ \A i, j \in 1..Len(roster) : i # j => roster[i].id # roster[j].id
        /\ \A i \in 1..Len(roster) :
               /\ roster[i].subjects # <<>>
               /\ <<>> \notin Range(roster[i].subjects)
               /\ Cardinality(Range(roster[i].subjects)) = Len(roster[i].subjects)

\* A call with two students, the one added last from a text with an empty
\* piece and a repeated subject, after a number field held a text with a sign.
C10_Witness ==
    /\ EngineCalled
    /\ Len(roster) = 2
    /\ max_groups_txt = <<"+", "2">>
    /\ new_student_subjects_txt = <<"b", ",", ",", "a", ",", "b">>
    /\ subjects_by_student_id[selected_student_id] = << <<"b">>, <<"a">> >>
    /\ selected_student_id = new_student_id_txt

----------------------------------------------------------------------------
(* Further properties of the engine *)

\* The run is over a roster in which every student requests the single
\* subject "A" (rosters are written up to renaming).
UniformRun ==
    /\ \A i \in 1..Len(roster) : roster[i].subjects = <<"A">>
    /\ roster = <<>> => domain.num_subjects = 1

\* C11: on a roster in which all students request the same single subject,
\* for any max_groups >= 1 and daily_lesson_capacity >= 1, the run ends
\* Solved, the subject has exactly one group, at the first slot, and every
\* student holds that group's entry at the first slot.
C11_UniformRosterSolved ==
    (pc = "done" /\ UniformRun) =>
        /\ Solved
        /\ Len(GroupsOf(groups_by_subject, "A")) = 1
        /\ groups_by_subject["A"][1].slot = 0
        /\ \A id \in DOMAIN slots_by_student_id :
               /\ slots_by_student_id[id][0] = Some("A", 0)
               /\ Occupied(slots_by_student_id[id]) = {0}

\* C12: for every daily_lesson_capacity in 1..255 the slot count is
\* daily_lesson_capacity * 5, the multiplication neither aborts nor wraps, and
\* every student's array and the subjects table have that many entries.
C12_SlotCountExact ==
    pc # "enter" =>
        /\ panic # "total_slots_overflow"
        /\ total_slots = daily_lesson_capacity * DaysPerWeek
        /\ \A i \in 1..Len(students) :
               Cardinality(DOMAIN students[i]) = daily_lesson_capacity * DaysPerWeek
        /\ Solved => Cardinality(DOMAIN subjects) = daily_lesson_capacity * DaysPerWeek

\* A slot array holds no subject twice.
OneEntryPerSubject(slots) ==
    \A j, k \in Occupied(slots) : slots[j][1] = slots[k][1] => j = k

\* C13: at every point of a solve, the array being built and the array of
\* every processed student hold at most one entry per subject and no more
\* occupied entries than the student requested (distinct) subjects.
C13_OneEntryPerSubject ==
    /\ \A i \in 1..Len(students) :
           /\ OneEntryPerSubject(students[i])
           /\ Cardinality(Occupied(students[i])) <= Cardinality(Range(roster[i].subjects))
    /\ (pc \in {"subject", "sort", "probe", "move", "fold"}) =>
           /\ OneEntryPerSubject(personal_slots)
           /\ Cardinality(Occupied(personal_slots)) <= Cardinality(Range(CurrentSubjects))

\* The entry at slot k of an array names a group of the registry that sits at
\* slot k.
EntryAtGroupSlot(gbs, slots, k) ==
    /\ GroupExists(gbs, slots[k])
    /\ GroupAt(gbs, slots[k]).slot = k

\* C14: after each student is folded into the registry, and in every Solved
\* result, every occupied entry (s, g) at slot k of a processed student's
\* array names an existing group g of s whose assigned slot is k.
C14_EntriesAtGroupSlot ==
    (pc = "next_student" \/ Solved) =>
        \A i \in 1..Len(students) :
            \A k \in Occupied(students[i]) :
                EntryAtGroupSlot(groups_by_subject, students[i], k)

\* Lines 181-205: chosen_group_slot, the slot the chosen candidate leaves: its
\* group's slot when the group is registered, else the first slot at which the
\* current student holds the candidate's subject.
ChosenGroupSlot(gbs, ps, candidate) ==
    IF GroupExists(gbs, candidate) THEN GroupAt(gbs, candidate).slot
    ELSE PositionOfSubject(ps, candidate[1])

\* A step that relocates the chosen candidate and places the current subject.
Relocation == pc = "move" /\ pc' # "done"

C15_SwapStep ==
    (Relocation /\ chosen[1] # CurrentSubject) =>
        LET vacated == ChosenGroupSlot(groups_by_subject, personal_slots, chosen)
        IN  /\ personal_slots'[vacated] # None
            /\ personal_slots'[vacated][1] = CurrentSubject
            /\ ~GroupExists(groups_by_subject', personal_slots'[vacated])
            /\ personal_slots'[next_free_slot] = chosen

\* C15: when the rebalancer relocates a candidate of another subject, the
\* current student then holds the current subject at the slot the candidate
\* vacated, with a group index that is not registered yet (so make_global
\* creates a fresh group there), and holds the candidate's (subject, index) at
\* the probe slot.
C15_SwapCreatesFreshGroup == [][C15_SwapStep]_vars

\* The lowest free slot of an array after slot `after` (-1 when there is none).
NextFreeAfter(ps, after) ==
    LET free == {k \in SlotIdxs(ps) : k > after /\ ps[k] = None}
    IN  IF free = {} THEN -1 ELSE CHOOSE k \in free : \A j \in free : k <= j

\* C16: during one rebalancing the first probe slot is the current student's
\* first free slot, and every further probe slot is the lowest free slot of the
\* student's array after the previous one; so every probe slot is free, the
\* sequence is strictly increasing and no free slot is skipped.
C16_ProbesAscendOverFreeSlots ==
    (pc \in {"probe", "move"}) =>
        \A i \in 1..Len(probed) :
            probed[i] = NextFreeAfter(personal_slots, IF i = 1 THEN -1 ELSE probed[i - 1])

\* The members of the chosen candidate's group, as indices into students.
ChosenMembers == {m + 1 : m \in Range(GroupAt(groups_by_subject, chosen).student_idxs)}

\* A step that relocates an existing (registered) group.
GroupRelocation == Relocation /\ GroupExists(groups_by_subject, chosen)

C17_RelocationStep ==
    GroupRelocation =>
        LET a == GroupAt(groups_by_subject, chosen).slot
            b == next_free_slot
        IN  /\ \A i \in ChosenMembers :
                   /\ students'[i][b] = chosen
                   /\ students'[i][a] = None
                   /\ \A k \in Occupied(students[i]) :
                          students[i][k][1] # chosen[1] => students'[i][k] = students[i][k]
            /\ GroupAt(groups_by_subject', chosen).slot = b
            /\ \A s \in DOMAIN groups_by_subject :
                   \A g \in 1..Len(groups_by_subject[s]) :
                       <<s, g - 1>> # chosen =>
                           groups_by_subject'[s][g].slot = groups_by_subject[s][g].slot

\* C17: when an existing group (s, g) is relocated from slot a to the probe
\* slot b, every registered member afterwards holds (s, g) at b, is empty at
\* a, and keeps every entry of any other subject; the group's slot becomes b
\* and no other group's slot changes.
C17_RelocationMovesOnlyTheGroup == [][C17_RelocationStep]_vars

C18_AcceptableStep ==
    GroupRelocation =>
        \A i \in ChosenMembers :
            /\ students[i][next_free_slot] = None
            /\ students'[i][next_free_slot] = chosen
            /\ \A k \in Occupied(students[i]) :
                   students[i][k] # chosen => students'[i][k] # None

\* C18: an existing group is relocated to the probe slot only if every
\* registered member's array is empty there; the relocation overwrites no
\* occupied entry of a member (it removes only the group's own entry), and
\* every member holds the group at the probe slot afterwards.
C18_RelocationOverwritesNothing == [][C18_AcceptableStep]_vars

\* The candidates that are acceptable at the probe slot, as list positions.
AcceptableHere ==
    {i \in 1..Len(candidates) :
        IsCandidateOk(groups_by_subject, students, candidates[i], next_free_slot)}

\* C19: at the probe slot where the rebalancer chooses, the chosen candidate
\* has the smallest attendance among the candidates acceptable there.
C19_SmallestAcceptableChosen ==
    pc = "move" =>
        \A i \in AcceptableHere :
            attendance(chosen, groups_by_subject)
                <= attendance(candidates[i], groups_by_subject)

\* A choice of a registered group (attendance at least 1) with an acceptable
\* candidate of larger attendance left behind.
C19_Witness ==
    /\ pc = "move"
    /\ attendance(chosen, groups_by_subject) >= 1
    /\ \E i \in AcceptableHere :
           attendance(candidates[i], groups_by_subject)
               > attendance(chosen, groups_by_subject)

----------------------------------------------------------------------------
(* sort_by_ascending_attendance on its own: the call handle_subjects makes,   *)
(* sort_by_ascending_attendance(&mut candidates, &groups_by_subject, 0, end), *)
(* over candidate lists and registries drawn from bounded sets.               *)

\* A group at slot 0 with the first n students as members.
GroupOf(n) == [slot |-> 0, student_idxs |-> [i \in 1..n |-> i - 1]]

\* Registries: two groups of "A" and one of "B" with varying member counts,
\* and "C" without a group.
SortRegistries ==
    {[s \in {"A", "B", "C"} |->
         IF s = "A" THEN <<GroupOf(a0), GroupOf(a1)>>
         ELSE IF s = "B" THEN <<GroupOf(b0)>>
         ELSE <<>>] : a0 \in {1, 2}, a1 \in {1, 2}, b0 \in {1, 3}}

\* Entries of the current student's array: registered groups, and ("A", 2),
\* whose index does not exist.
SortEntries == {None, Some("A", 0), Some("A", 1), Some("A", 2), Some("B", 0)}

SortInit ==
    /\ domain = [num_subjects |-> 0, max_students |-> 0, max_list |-> 0,
                 max_requests |-> 0, group_limits |-> {}, capacities |-> {}]
    /\ max_groups = 2
    /\ daily_lesson_capacity = 1
    /\ total_slots = daily_lesson_capacity * DaysPerWeek
    /\ groups_by_subject \in SortRegistries
    /\ personal_slots \in [0..(total_slots - 1) -> SortEntries]
    /\ \E subject \in {"A", "C"} : roster = <<StudentInfo(0, <<subject>>)>>
    /\ subject_pos = 0
    /\ students = <<>>
    /\ candidates = BuildCandidates(groups_by_subject, personal_slots, CurrentSubject)
    /\ sort_stack = << [start |-> 0, end |-> Len(candidates) - 1] >>
    /\ next_free_slot = 0
    /\ iter_pos = 0
    /\ probed = <<>>
    /\ chosen = None
    /\ pc = "sort"
    /\ result = "none"
    /\ panic = "none"
    /\ subjects = EmptySlots(0)
    /\ slots_by_student_id = <<>>
    /\ UIIdle

SortNext == SortStep

SortSpec == SortInit /\ [][SortNext]_vars

\* How often a candidate occurs in a list.
Count(cs, c) == Cardinality({i \in 1..Len(cs) : cs[i] = c})

IsPermutation(cs, ds) ==
    /\ Len(cs) = Len(ds)
    /\ \A c \in Range(cs) \cup Range(ds) : Count(cs, c) = Count(ds, c)

Ascending(cs, gbs) ==
    \A i \in 1..(Len(cs) - 1) : attendance(cs[i], gbs) <= attendance(cs[i + 1], gbs)

\* The list handed to the sort (the registry and the student's array do not
\* change while it runs).
SortInput == BuildCandidates(groups_by_subject, personal_slots, CurrentSubject)

\* C20: when sort_by_ascending_attendance(candidates, 0, len - 1) has
\* returned, the list is a permutation of the list it was given, in
\* non-decreasing order of attendance (0 for an index that does not exist).
C20_SortedPermutation ==
    pc = "probe" =>
        /\ IsPermutation(candidates, SortInput)
        /\ Ascending(candidates, groups_by_subject)

\* A sorted list of at least five candidates with three different attendances
\* that was not in order when handed over.
C20_Witness ==
    /\ pc = "probe"
    /\ Len(candidates) >= 5
    /\ ~Ascending(SortInput, groups_by_subject)
    /\ Cardinality({attendance(candidates[i], groups_by_subject) :
                        i \in 1..Len(candidates)}) >= 3

(***************************************************************************)
(* Properties of one subject's placement                                   *)
(***************************************************************************)

\* The 1-based positions, in the subject's group list, of the groups whose
\* slot is empty in the current student's array.
OpenGroups(subject) ==
    {g \in 1..Len(GroupsOf(groups_by_subject, subject)) :
        personal_slots[GroupsOf(groups_by_subject, subject)[g].slot] = None}

\* The registry without its empty keys: the groups of every subject.
AllGroups(gbs) == [s \in Subjects |-> GroupsOf(gbs, s)]

\* A step that places the current subject by lazy reuse or reports that lazy
\* reuse failed.
C21_LazyStep ==
    pc = "subject" =>
        LET subject == CurrentSubject
            gs == GroupsOf(groups_by_subject, subject)
            open == OpenGroups(subject)
        IN  IF open # {}
            THEN LET g == CHOOSE i \in open : \A j \in open : i <= j
                 IN  /\ personal_slots' =
                            [personal_slots EXCEPT ![gs[g].slot] = Some(subject, g - 1)]
                     /\ groups_by_subject' = groups_by_subject
                     /\ students' = students
                     /\ subject_pos' = subject_pos + 1
                     /\ pc' \in {"subject", "fold"}
            ELSE \/ pc' \in {"sort", "done"}
                 \/ personal_slots'[FirstFreeSlot(personal_slots)] =
                        Some(subject, Len(gs))

\* C21: lazy reuse places the current student in the lowest-index existing
\* group of the subject whose slot is empty in the student's array, writing
\* (subject, that index) at that group's slot and changing neither the
\* registry, nor another student's array, nor another entry of this student's
\* array; the placement goes on to the first free slot (a new group, the
\* rebalancer, or the abort for a full array) only if every existing group of
\* the subject sits on a slot the student already occupies.
C21_LazyReuseLowestOpenGroup == [][C21_LazyStep]_vars

\* C21 witness: in a run that never rebalanced, the student being placed has
\* joined the second group of a subject at that group's slot while the
\* subject's first group sits on a slot the student holds for another subject.
C21_Witness ==
    /\ Running
    /\ pc \in {"subject", "fold"}
    /\ probed = <<>>
    /\ \E s \in Subjects :
           /\ Len(GroupsOf(groups_by_subject, s)) >= 2
           /\ personal_slots[groups_by_subject[s][2].slot] = Some(s, 1)
           /\ personal_slots[groups_by_subject[s][1].slot] # None
           /\ personal_slots[groups_by_subject[s][1].slot][1] # s

\* The existing groups whose slot a step changes.
MovedGroups ==
    {c \in Subjects \X (0..(U8 - 1)) :
        /\ GroupExists(groups_by_subject, c)
        /\ GroupExists(groups_by_subject', c)
        /\ GroupAt(groups_by_subject', c).slot # GroupAt(groups_by_subject, c).slot}

\* Lazy reuse fails for the current subject: the subject has no group on a
\* slot that is empty in the current student's array.
LazyFailed == OpenGroups(CurrentSubject) = {}

\* A step of the placement of one subject for one student.
C22_PlacementStep ==
    pc \in {"subject", "sort", "probe", "move"} =>
        LET subject == CurrentSubject
            count == Len(GroupsOf(groups_by_subject, subject))
            free == FirstFreeSlot(personal_slots)
        IN  /\ (students' # students \/ AllGroups(groups_by_subject') # AllGroups(groups_by_subject)) =>
                   /\ LazyFailed
                   /\ count = max_groups
                   /\ Cardinality(MovedGroups) <= 1
            /\ (pc = "subject" /\ LazyFailed /\ count < max_groups) =>
                   /\ free # -1
                   /\ personal_slots' =
                          [personal_slots EXCEPT ![free] = Some(subject, count)]
                   /\ students' = students
                   /\ AllGroups(groups_by_subject') = AllGroups(groups_by_subject)

\* C22: while one subject is placed for one student, an existing group's slot
\* or a processed student's array changes only if lazy reuse failed and the
\* subject has max_groups groups, and then at most one group moves; when lazy
\* reuse failed and the subject has fewer than max_groups groups, the only
\* change is that the student's first free slot receives (subject, the
\* subject's group count).
C22_OnlyTheRebalancerMoves == [][C22_PlacementStep]_vars

\* C22 witness: the rebalancer has moved an existing group to the slot it
\* probed last, and the student being placed also holds an entry of a group
\* that is new (it is not in the registry yet).
C22_Witness ==
    /\ Running
    /\ pc \in {"subject", "fold"}
    /\ probed # <<>>
    /\ GroupExists(groups_by_subject, chosen)
    /\ GroupAt(groups_by_subject, chosen).slot = probed[Len(probed)]
    /\ \E k \in Occupied(personal_slots) :
           ~GroupExists(groups_by_subject, personal_slots[k])

(***************************************************************************)
(* Properties of the registry's member lists                               *)
(***************************************************************************)

\* The student indices found in the member lists of the registry.
Members(gbs) ==
    UNION {UNION {Range(GroupsOf(gbs, s)[g].student_idxs) :
                      g \in 1..Len(GroupsOf(gbs, s))} : s \in Subjects}

\* Every entry of processed student i names a group of the registry that
\* lists the student as a member.
Registered(i) ==
    \A k \in Occupied(students[i]) :
        /\ GroupExists(groups_by_subject, students[i][k])
        /\ (i - 1) \in Range(GroupAt(groups_by_subject, students[i][k]).student_idxs)

\* C23: a student's membership is registered only after all of the student's
\* subjects have been placed. While a student's subjects are placed (and until
\* make_global has run) the processed students are exactly the earlier ones
\* and every member of every group is one of them, so no member list holds
\* the current student; and every entry of every processed student is
\* registered in the registry the next student sees.
C23_RegisteredAfterPlacement ==
    /\ pc \in {"subject", "sort", "probe", "move", "fold"} =>
           /\ Len(students) = student_idx
           /\ Members(groups_by_subject) \subseteq 0..(student_idx - 1)
    /\ \A i \in 1..Len(students) : Registered(i)

\* C23 witness: the rebalancer is about to migrate the members of a group
\* with two members while the student being placed already holds entries.
C23_Witness ==
    /\ pc = "move"
    /\ GroupExists(groups_by_subject, chosen)
    /\ Len(GroupAt(groups_by_subject, chosen).student_idxs) >= 2
    /\ Occupied(personal_slots) # {}

\* The member list names no student twice.
NoDuplicates(student_idxs) ==
    \A i, j \in 1..Len(student_idxs) : student_idxs[i] = student_idxs[j] => i = j

\* C24: at every point of a solve, no group's member list contains the same
\* student index twice, and no student index is a member of two different
\* groups of the same subject.
C24_OneGroupPerSubject ==
    \A s \in Subjects :
        \A g, h \in 1..Len(GroupsOf(groups_by_subject, s)) :
            /\ NoDuplicates(groups_by_subject[s][g].student_idxs)
            /\ g # h => Range(groups_by_subject[s][g].student_idxs) \cap
                         Range(groups_by_subject[s][h].student_idxs) = {}

\* C24 witness: after a student whose placement ran the rebalancer has been
\* registered, a subject has two groups with members, one of them with two.
C24_Witness ==
    /\ pc = "next_student"
    /\ probed # <<>>
    /\ \E s \in Subjects :
           /\ Len(GroupsOf(groups_by_subject, s)) >= 2
           /\ \E g, h \in 1..Len(GroupsOf(groups_by_subject, s)) :
                  /\ g # h
                  /\ Len(groups_by_subject[s][g].student_idxs) >= 2
                  /\ Len(groups_by_subject[s][h].student_idxs) >= 1

(***************************************************************************)
(* Properties of the student selection                                     *)
(***************************************************************************)

\* The keys of the engine's slots_by_student_id for the roster it was called
\* with (one insert per student, lines 305-308).
RosterIds == {roster[i].id : i \in 1..Len(roster)}

\* C25: in every reachable state of the input collector selected_student_id
\* is empty or a key of the roster map, so the lookup of the "Student
\* Configuration" screen never misses; the engine is never invoked with an
\* empty roster; and on the "Result" screen a non-empty selection is the id
\* of a student of the submitted roster, so the lookup there never misses.
C25_SelectionIsRosterKey ==
    /\ selected_student_id = <<>> \/ selected_student_id \in DOMAIN subjects_by_student_id
    /\ EngineCalled => roster # <<>>
    /\ (state.tag = "Submitted" /\ selected_student_id # <<>>) =>
           selected_student_id \in RosterIds

\* C25 witness: the student added last ("y") was deleted, the selection
\* passed to the remaining student ("x"), and the roster was submitted.
C25_Witness ==
    /\ state.tag = "Submitted"
    /\ EngineCalled
    /\ new_student_id_txt = <<"y">>
    /\ DOMAIN subjects_by_student_id = {<<"x">>}
    /\ selected_student_id = <<"x">>
    /\ Len(roster) = 1

====
